---- MODULE Spec2Model ----
(***************************************************************************)
(* The game engine of nineeightseven.py (a Fibonacci variant of 2048): the *)
(* board transforms, the tile spawn, the terminal test, the best_move      *)
(* search and the State event handlers that drive them.                    *)
(*                                                                         *)
(* A CELL (rank, key) is the pair <<rank, key>>, a GROUP a sequence of     *)
(* cells and a BOARD a sequence of groups.  Python indexes from 0, the     *)
(* sequences here from 1: row i of the code is row i + 1 of the model.     *)
(***************************************************************************)
EXTENDS Integers, Sequences, FiniteSets

VARIABLES
    board,          \* State._board.board; in the function specifications, self.board
    score,          \* State.score
    default_board,  \* the dataclass default of TwentyFourtyEightBoard.board (built once)
    rng,            \* state of the global `random` generator, as far as keys are drawn
    op,             \* the last call that completed ("init"/"input" before any)
    arg,            \* its argument(s)
    pre,            \* the board it was applied to (None for on_load and on_reset)
    prescore,       \* score when it was entered
    ret,            \* what it returned
    steps           \* number of handler events so far (driver only)

vars == <<board, score, default_board, rng, op, arg, pre, prescore, ret, steps>>

(***************************************************************************)
(* Bounds of the model.                                                    *)
(***************************************************************************)
MaxKey == 2         \* identity keys are 0..MaxKey (the code draws from 0..1000000)
MaxRank == 3        \* ranks of the tiles of an input board are 0..MaxRank
MaxSteps == 3       \* handler events explored in the driver
MaxDepth == 1       \* best_move depths explored: 0..MaxDepth
MaxBreadth == 2     \* best_move breadths explored: 1..MaxBreadth

(***************************************************************************)
(* Program constants.                                                      *)
(***************************************************************************)
BOARD_SIZE == 4
GameOverScore == -123456789
InitialBestScore == -1
FibonacciLength == 30
ComputerPlayDepth == 3
ComputerPlayBreadth == 4

None == <<>>
ValueError == <<"ValueError">>

UP == "ArrowUp"
DOWN == "ArrowDown"
LEFT == "ArrowLeft"
RIGHT == "ArrowRight"
\* `for direction in Direction` enumerates in definition order.
Direction == <<UP, DOWN, LEFT, RIGHT>>
Directions == {Direction[n] : n \in 1..Len(Direction)}

Keys == 0..MaxKey
Index == 1..BOARD_SIZE

(***************************************************************************)
(* The key draws of random.randint(0, 1000000).  The generator's state is  *)
(* the key it returns next, and each draw steps it to the following key,   *)
(* wrapping at MaxKey; the state it starts in is arbitrary.  Draws repeat, *)
(* as the code's may.  random.choice and random.random are free choices    *)
(* (see with_random_tile).                                                 *)
(***************************************************************************)
RandomSource == Keys

\* The key the n-th call from now returns, the generator being in state rnd.
get_random_key(rnd, n) == (rnd + (n - 1)) % (MaxKey + 1)

\* The generator's state after n calls.
Advance(rnd, n) == (rnd + n) % (MaxKey + 1)

(***************************************************************************)
(* pad_values: draws one key per missing cell, in order.                   *)
(***************************************************************************)
pad_values(v, rnd) ==
    IF Len(v) > BOARD_SIZE
    THEN ValueError
    ELSE v \o [n \in 1..(BOARD_SIZE - Len(v)) |-> <<0, get_random_key(rnd, n)>>]

(***************************************************************************)
(* combine_values.  CombineLoop is the for loop from iteration i (0-based  *)
(* as in the code; values[i] of the code is values[i + 1] here) with the   *)
(* loop's three locals.                                                    *)
(***************************************************************************)
Abs(x) == IF x < 0 THEN -x ELSE x

Max(x, y) == IF x >= y THEN x ELSE y

\* Line 52: the tile two rank-1 tiles merge into.
MergedOnes(first, second) == <<2, second[2]>>

\* The merged rank taken to be the sum of the two ranks.
MergedAdjacentSumOfRanks(first, second) == <<first[1] + second[1], second[2]>>

\* The merged tile given the first tile's key.
MergedAdjacentFirstKey(first, second) == <<Max(first[1], second[1]) + 1, first[2]>>

\* Lines 56-58: the tile two tiles of adjacent ranks merge into.
MergedAdjacent(first, second) == <<Max(first[1], second[1]) + 1, second[2]>>

RECURSIVE CombineLoop(_, _, _, _, _)
CombineLoop(values, i, values_counter, new_values, sc) ==
    IF i >= Len(values)
    THEN <<new_values, sc>>
    ELSE IF values_counter = i + 1
    THEN CombineLoop(values, i + 1, values_counter, new_values, sc)
    ELSE IF i + 1 < Len(values)
    THEN IF values[i + 1][1] = values[i + 2][1] /\ values[i + 2][1] = 1
         THEN CombineLoop(values, i + 1, values_counter + 2,
                          Append(new_values, MergedOnes(values[i + 1], values[i + 2])),
                          sc + 2)
         ELSE IF Abs(values[i + 1][1] - values[i + 2][1]) = 1
         THEN CombineLoop(values, i + 1, values_counter + 2,
                          Append(new_values, MergedAdjacent(values[i + 1], values[i + 2])),
                          sc + values[i + 1][1] + values[i + 2][1])
         ELSE CombineLoop(values, i + 1, values_counter + 1,
                          Append(new_values, values[i + 1]), sc)
    ELSE CombineLoop(values, i + 1, values_counter + 1,
                     Append(new_values, values[i + 1]), sc)

IsOccupied(cell) == cell[1] # 0

\* values_counter started at 1: the first tile of the group is passed over.
combine_values_counter_from_one(group) ==
    CombineLoop(SelectSeq(group, IsOccupied), 0, 1, <<>>, 0)

combine_values(group) ==
    CombineLoop(SelectSeq(group, IsOccupied), 0, 0, <<>>, 0)

reverse(group) == [n \in 1..Len(group) |-> group[Len(group) + 1 - n]]

ith_column(b, i) == [j \in Index |-> b[j][i]]

ith_row(b, i) == b[i]

transpose(b) == [i \in Index |-> ith_column(b, i)]

insert_value_row(row, i, value, rnd) ==
    [j \in Index |-> IF i = j THEN <<value, get_random_key(rnd, 1)>> ELSE row[j]]

\* The row test `if i == k` left out: the value goes into every row.
insert_value_every_row(b, i, j, value, rnd) ==
    [k \in Index |-> insert_value_row(b[k], j, value, rnd)]

insert_value(b, i, j, value, rnd) ==
    [k \in Index |-> IF i = k THEN insert_value_row(b[k], j, value, rnd) ELSE b[k]]

(***************************************************************************)
(* The four move loops, each from iteration i with its locals new_board    *)
(* and total_score.  rnd is the generator's state at that iteration: every *)
(* pad_values call advances it by the keys it has drawn.                   *)
(***************************************************************************)
RECURSIVE MoveUpLoop(_, _, _, _, _)
MoveUpLoop(b, i, new_board, total_score, rnd) ==
    IF i > BOARD_SIZE
    THEN <<new_board, total_score>>
    ELSE LET cv == combine_values(ith_column(b, i))
         IN  MoveUpLoop(b, i + 1, Append(new_board, pad_values(cv[1], rnd)),
                        total_score + cv[2], Advance(rnd, BOARD_SIZE - Len(cv[1])))

_move_up(b, rnd) ==
    LET r == MoveUpLoop(b, 1, <<>>, 0, rnd)
    IN  <<transpose(r[1]), r[2]>>

RECURSIVE MoveDownLoop(_, _, _, _, _)
MoveDownLoop(b, i, new_board, total_score, rnd) ==
    IF i > BOARD_SIZE
    THEN <<new_board, total_score>>
    ELSE LET cv == combine_values(reverse(ith_column(b, i)))
         IN  MoveDownLoop(b, i + 1, Append(new_board, reverse(pad_values(cv[1], rnd))),
                          total_score + cv[2], Advance(rnd, BOARD_SIZE - Len(cv[1])))

\* The padded column not reversed back: the tiles end at the top.
_move_down_not_reversed(b, rnd) ==
    LET r == MoveUpLoop(reverse(b), 1, <<>>, 0, rnd)
    IN  <<transpose(r[1]), r[2]>>

_move_down(b, rnd) ==
    LET r == MoveDownLoop(b, 1, <<>>, 0, rnd)
    IN  <<transpose(r[1]), r[2]>>

RECURSIVE MoveLeftLoop(_, _, _, _, _)
MoveLeftLoop(b, i, new_board, total_score, rnd) ==
    IF i > BOARD_SIZE
    THEN <<new_board, total_score>>
    ELSE LET cv == combine_values(ith_row(b, i))
         IN  MoveLeftLoop(b, i + 1, Append(new_board, pad_values(cv[1], rnd)),
                          total_score + cv[2], Advance(rnd, BOARD_SIZE - Len(cv[1])))

_move_left(b, rnd) == MoveLeftLoop(b, 1, <<>>, 0, rnd)

RECURSIVE MoveRightLoop(_, _, _, _, _)
MoveRightLoop(b, i, new_board, total_score, rnd) ==
    IF i > BOARD_SIZE
    THEN <<new_board, total_score>>
    ELSE LET cv == combine_values(reverse(ith_row(b, i)))
         IN  MoveRightLoop(b, i + 1, Append(new_board, reverse(pad_values(cv[1], rnd))),
                           total_score + cv[2], Advance(rnd, BOARD_SIZE - Len(cv[1])))

_move_right(b, rnd) == MoveRightLoop(b, 1, <<>>, 0, rnd)

_just_values(b) == [n \in 1..(BOARD_SIZE * BOARD_SIZE) |->
                       b[((n - 1) \div BOARD_SIZE) + 1][((n - 1) % BOARD_SIZE) + 1][1]]

\* The match statement of move: the raw <<board, score>> of the direction's loop.
MoveMatch(b, direction, rnd) ==
    CASE direction = UP -> _move_up(b, rnd)
      [] direction = DOWN -> _move_down(b, rnd)
      [] direction = LEFT -> _move_left(b, rnd)
      [] direction = RIGHT -> _move_right(b, rnd)

\* move returns the pair (None, 0) or (board, score).
move(b, direction, rnd) ==
    LET r == MoveMatch(b, direction, rnd)
    IN  IF _just_values(b) = _just_values(r[1]) THEN <<None, 0>> ELSE r

empty_tiles(b) == {ij \in Index \X Index : b[ij[1]][ij[2]][1] = 0}

\* Every key move draws pads one empty cell of the board its loop builds.
MoveDraws(b, direction, rnd) == Cardinality(empty_tiles(MoveMatch(b, direction, rnd)[1]))

\* is_game_over compares what move returns, a pair, with None.
is_game_over(b, rnd) == \A n \in 1..Len(Direction) : move(b, Direction[n], rnd) = None

(***************************************************************************)
(* with_random_tile: the set of boards it can return, one per outcome of   *)
(* random.choice(empty_tiles) and of random.random() < 0.9.                *)
(***************************************************************************)
with_random_tile(b, rnd) ==
    IF empty_tiles(b) = {}
    THEN {b}
    ELSE {insert_value(b, ij[1], ij[2], value, rnd) :
             ij \in empty_tiles(b), value \in {1, 2}}

WithRandomTileDraws(b) == IF empty_tiles(b) = {} THEN 0 ELSE 1

(***************************************************************************)
(* best_move.  The samples of the lookahead are random, so a call has a    *)
(* set of possible runs: BestMoveRuns is the set of triples                *)
(* <<best_direction, best_score, totals>> the call can end with, totals    *)
(* being, per direction in loop order, <<>> when the direction was skipped *)
(* (move returned None) and <<score>> with the local `score` compared in   *)
(* line 165 otherwise.  best_move is the set of pairs it can return.       *)
(***************************************************************************)
RECURSIVE SumsOf(_, _)
\* The sums sum(... for _ in range(n)) can take, each term being any member of S.
SumsOf(S, n) == IF n = 0 THEN {0} ELSE {x + y : x \in S, y \in SumsOf(S, n - 1)}

RECURSIVE BestMoveRuns(_, _, _, _)
RECURSIVE BestMoveLoop(_, _, _, _, _, _)
BestMoveLoop(b, n, depth, breadth, rnd, runs) ==
    IF n > Len(Direction)
    THEN runs
    ELSE LET direction == Direction[n]
             m == move(b, direction, rnd)
             new_board == m[1]
             after == Advance(rnd, MoveDraws(b, direction, rnd))
             samples == UNION {{r[2] : r \in BestMoveRuns(t, depth - 1, breadth,
                                                          Advance(after, 1))} :
                                  t \in with_random_tile(new_board, after)}
             scores == IF depth > 0
                       THEN {m[2] + (s \div breadth) : s \in SumsOf(samples, breadth)}
                       ELSE {m[2]}
         IN  IF new_board = None
             THEN BestMoveLoop(b, n + 1, depth, breadth, after,
                               {<<r[1], r[2], Append(r[3], <<>>)>> : r \in runs})
             ELSE BestMoveLoop(b, n + 1, depth, breadth, after,
                               {IF sc > r[2]
                                THEN <<direction, sc, Append(r[3], <<sc>>)>>
                                ELSE <<r[1], r[2], Append(r[3], <<sc>>)>> :
                                   r \in runs, sc \in scores})

BestMoveRuns(b, depth, breadth, rnd) ==
    IF is_game_over(b, rnd)
    THEN {<<UP, GameOverScore, <<>>>>}
    ELSE BestMoveLoop(b, 1, depth, breadth, rnd, {<<UP, InitialBestScore, <<>>>>})

best_move(b, depth, breadth, rnd) ==
    {<<r[1], r[2]>> : r \in BestMoveRuns(b, depth, breadth, rnd)}

(***************************************************************************)
(* generate_fibonacci and the table render_tile indexes by rank            *)
(* (fibonacci_var[value], 0-based: rank r shows Fibonacci[r + 1] here).    *)
(***************************************************************************)
RECURSIVE FibonacciLoop(_, _, _, _)
FibonacciLoop(a, b, result, todo) ==
    IF todo <= 0 THEN result ELSE FibonacciLoop(b, a + b, Append(result, a + b), todo - 1)

generate_fibonacci(n) == FibonacciLoop(1, 1, <<1, 1>>, n - 2)

fibonacci == generate_fibonacci(FibonacciLength)

\* What render_tile shows for a cell of this rank: "" (nothing) for rank 0.
Displayed(rank) == IF rank = 0 THEN 0 ELSE fibonacci[rank + 1]

(***************************************************************************)
(* Boards.                                                                 *)
(***************************************************************************)
\* The cells of a board are built row by row, one key drawn per cell.
WithKeys(ranks, rnd) ==
    [i \in Index |-> [j \in Index |->
        <<ranks[i][j], get_random_key(rnd, (i - 1) * BOARD_SIZE + j)>>]]

\* The default of the dataclass field: all ranks 0, a drawn key per cell.
DefaultBoard(rnd) == WithKeys([i \in Index |-> [j \in Index |-> 0]], rnd)

Lines == [Index -> 0..MaxRank]

\* Input boards of the function specification: row i is a line of ranks
\* rotated by (i - 1) * s places.  s = 0 repeats the line, s = 1 and 3 give
\* every row and column the same tiles, s = 2 alternates two rows.
RotationBoards ==
    {[i \in Index |-> [j \in Index |-> p[((j - 1 + (i - 1) * s) % BOARD_SIZE) + 1]]] :
        p \in Lines, s \in 0..(BOARD_SIZE - 1)}

\* Input boards of the search specification: full of tiles of one rank no
\* spawned tile merges with, but for one cell of any rank 0..MaxRank.
NearlyFullBoards ==
    {[i \in Index |-> [j \in Index |-> IF <<i, j>> = ij THEN r ELSE MaxRank + 1]] :
        ij \in Index \X Index, r \in 0..MaxRank}

(***************************************************************************)
(* The State event handlers.                                               *)
(***************************************************************************)
AllEmpty(b) == \A i \in Index : \A j \in Index : b[i][j][1] = 0

on_load ==
    /\ steps < MaxSteps
    /\ IF AllEmpty(board)
       THEN /\ board' \in with_random_tile(board, rng)
            /\ score' = 0
            /\ rng' = Advance(rng, WithRandomTileDraws(board))
       ELSE UNCHANGED <<board, score, rng>>
    /\ op' = "on_load" /\ arg' = None /\ ret' = None
    /\ pre' = None /\ prescore' = score /\ steps' = steps + 1
    /\ UNCHANGED default_board

on_reset ==
    /\ steps < MaxSteps
    /\ board' \in with_random_tile(default_board, rng)
    /\ score' = 0
    /\ rng' = Advance(rng, WithRandomTileDraws(default_board))
    /\ op' = "on_reset" /\ arg' = None /\ ret' = None
    /\ pre' = None /\ prescore' = score /\ steps' = steps + 1
    /\ UNCHANGED default_board

\* The body of on_key once the key is looked up; computer_play calls it too.
\* The moved board stored as it is, with_random_tile never called.
OnKeyBodyWithoutSpawn(direction, rnd) ==
    LET m == move(board, direction, rnd)
    IN  /\ board' = IF m[1] # None THEN m[1] ELSE board
        /\ score' = score + m[2]
        /\ rng' = Advance(rnd, MoveDraws(board, direction, rnd))

OnKeyBody(direction, rnd) ==
    LET m == move(board, direction, rnd)
        new_board == m[1]
        after == Advance(rnd, MoveDraws(board, direction, rnd))
    IN  IF new_board # None
        THEN /\ board' \in with_random_tile(new_board, after)
             /\ score' = score + m[2]
             /\ rng' = Advance(after, WithRandomTileDraws(new_board))
        ELSE /\ UNCHANGED <<board, score>>
             /\ rng' = after

on_key(key) ==
    /\ steps < MaxSteps
    /\ key \in Directions
    /\ OnKeyBody(key, rng)
    /\ op' = "on_key" /\ arg' = key /\ ret' = None
    /\ pre' = board /\ prescore' = score /\ steps' = steps + 1
    /\ UNCHANGED default_board

\* computer_play: one round of the background task, under the state lock.
\* The search leaves the generator wherever its own draws took it.
computer_play ==
    /\ \E r \in best_move(board, ComputerPlayDepth, ComputerPlayBreadth, rng) :
          \E drawn \in Keys : OnKeyBody(r[1], Advance(rng, drawn))
    /\ op' = "computer_play" /\ arg' = None /\ ret' = None
    /\ pre' = board /\ prescore' = score /\ steps' = steps + 1
    /\ UNCHANGED default_board

Init ==
    /\ \E rnd \in RandomSource :
          /\ default_board = DefaultBoard(rnd)
          /\ rng = Advance(rnd, BOARD_SIZE * BOARD_SIZE)
    /\ board = default_board
    /\ score = 0
    /\ op = "init" /\ arg = None /\ ret = None
    /\ pre = None /\ prescore = 0 /\ steps = 0

Next ==
    \/ on_load
    \/ on_reset
    \/ \E key \in Directions : on_key(key)

Spec == Init /\ [][Next]_vars

(***************************************************************************)
(* The engine's functions applied to input boards: one call per behaviour. *)
(***************************************************************************)
InputOf(boards) ==
    /\ \E rnd \in RandomSource :
          /\ default_board = DefaultBoard(rnd)
          /\ \E ranks \in boards :
                board = WithKeys(ranks, Advance(rnd, BOARD_SIZE * BOARD_SIZE))
          /\ rng = Advance(rnd, 2 * BOARD_SIZE * BOARD_SIZE)
    /\ score = 0
    /\ op = "input" /\ arg = None /\ ret = None
    /\ pre = None /\ prescore = 0 /\ steps = 0

Called(name, a) ==
    /\ op' = name /\ arg' = a
    /\ pre' = board /\ prescore' = score
    /\ UNCHANGED <<board, score, default_board, steps>>

CallCombineAndPad(i) ==
    /\ op = "input"
    /\ LET cv == combine_values(ith_row(board, i))
       IN  /\ ret' = <<cv[1], cv[2], pad_values(cv[1], rng)>>
           /\ rng' = Advance(rng, BOARD_SIZE - Len(cv[1]))
    /\ Called("combine_and_pad", i)

CallMove(direction) ==
    /\ op = "input"
    /\ ret' = move(board, direction, rng)
    /\ rng' = Advance(rng, MoveDraws(board, direction, rng))
    /\ Called("move", direction)

CallWithRandomTile ==
    /\ op = "input"
    /\ ret' \in with_random_tile(board, rng)
    /\ rng' = Advance(rng, WithRandomTileDraws(board))
    /\ Called("with_random_tile", None)

CallIsGameOver ==
    /\ op = "input"
    /\ ret' = is_game_over(board, rng)
    /\ UNCHANGED rng
    /\ Called("is_game_over", None)

CallBestMove(depth, breadth) ==
    /\ op = "input"
    /\ ret' \in BestMoveRuns(board, depth, breadth, rng)
    /\ UNCHANGED rng
    /\ Called("best_move", <<depth, breadth>>)

InitBoard == InputOf(RotationBoards)

NextBoard ==
    \/ \E i \in Index : CallCombineAndPad(i)
    \/ \E direction \in Directions : CallMove(direction)
    \/ CallWithRandomTile

SpecBoard == InitBoard /\ [][NextBoard]_vars

InitSearch == InputOf(NearlyFullBoards)

NextSearch ==
    \/ \E depth \in 0..MaxDepth : \E breadth \in 1..MaxBreadth :
          CallBestMove(depth, breadth)
    \/ CallIsGameOver
    \/ (op = "input" /\ computer_play)

SpecSearch == InitSearch /\ [][NextSearch]_vars

(***************************************************************************)
(* Reference definitions the properties are stated with.  They are written *)
(* from the rules of the game, not from the loops above.                   *)
(***************************************************************************)
Cells == Index \X Index

RanksOf(line) == [n \in 1..Len(line) |-> line[n][1]]

RECURSIVE RefDense(_)
\* The occupied cells of a line, in order.
RefDense(line) ==
    IF line = <<>> THEN <<>>
    ELSE IF Head(line)[1] = 0 THEN RefDense(Tail(line))
    ELSE <<Head(line)>> \o RefDense(Tail(line))

RefBothOnes(a, b) == a[1] = 1 /\ b[1] = 1

RefMergeable(a, b) == RefBothOnes(a, b) \/ a[1] - b[1] = 1 \/ b[1] - a[1] = 1

RECURSIVE RefGreedy(_)
\* The greedy merge of a dense line towards index 1: one record per tile of
\* the result, with the tile, the score it earned, whether it is a merge and
\* the last tile of the line it was made from.
RefGreedy(d) ==
    IF d = <<>> THEN <<>>
    ELSE IF Len(d) >= 2 /\ RefMergeable(d[1], d[2])
    THEN <<[cell |-> <<IF RefBothOnes(d[1], d[2]) THEN 2
                       ELSE (IF d[1][1] > d[2][1] THEN d[1][1] ELSE d[2][1]) + 1,
                       d[2][2]>>,
            gain |-> IF RefBothOnes(d[1], d[2]) THEN 2 ELSE d[1][1] + d[2][1],
            merged |-> TRUE,
            from |-> d[2]]>> \o RefGreedy(Tail(Tail(d)))
    ELSE <<[cell |-> d[1], gain |-> 0, merged |-> FALSE, from |-> d[1]]>>
         \o RefGreedy(Tail(d))

RECURSIVE RefGain(_)
RefGain(parts) == IF parts = <<>> THEN 0 ELSE Head(parts).gain + RefGain(Tail(parts))

\* Line n of board b read in the direction the tiles travel, first the cell
\* they move towards.
TravelLine(b, direction, n) ==
    [k \in Index |->
        CASE direction = LEFT -> b[n][k]
          [] direction = RIGHT -> b[n][BOARD_SIZE + 1 - k]
          [] direction = UP -> b[k][n]
          [] direction = DOWN -> b[BOARD_SIZE + 1 - k][n]]

KeysOfBoard(b) == {b[ij[1]][ij[2]][2] : ij \in Cells}

OccupiedCells(b) == {ij \in Cells : b[ij[1]][ij[2]][1] # 0}

RowsReversed(b) == [i \in Index |-> [j \in Index |-> b[i][BOARD_SIZE + 1 - j]]]

Transposed(b) == [i \in Index |-> [j \in Index |-> b[j][i]]]

\* Two results of move agree on None, on the score, on every rank and on the
\* key of every occupied cell.
SameResult(r1, r2) ==
    /\ (r1[1] = None) = (r2[1] = None)
    /\ r1[2] = r2[2]
    /\ r1[1] # None /\ r2[1] # None =>
          \A ij \in Cells :
             /\ r1[1][ij[1]][ij[2]][1] = r2[1][ij[1]][ij[2]][1]
             /\ r1[1][ij[1]][ij[2]][1] # 0 =>
                   r1[1][ij[1]][ij[2]][2] = r2[1][ij[1]][ij[2]][2]

RECURSIVE DisplayedSum(_, _)
\* The sum of the displayed values of the first n cells of b, row by row.
DisplayedSum(b, n) ==
    IF n = 0 THEN 0
    ELSE Displayed(b[((n - 1) \div BOARD_SIZE) + 1][((n - 1) % BOARD_SIZE) + 1][1])
         + DisplayedSum(b, n - 1)

DisplayedTotal(b) == DisplayedSum(b, BOARD_SIZE * BOARD_SIZE)

Legal(b, direction) == move(b, direction, rng)[1] # None

NoLegalMove(b) == \A direction \in Directions : ~Legal(b, direction)

DirectionIndex(direction) == CHOOSE n \in 1..Len(Direction) : Direction[n] = direction

\* b is nb with one of its empty cells turned into a tile of rank 1 or 2:
\* the ranks elsewhere and the keys of the occupied cells are nb's.
IsSpawnOf(b, nb) ==
    \E ij \in Cells :
       /\ nb[ij[1]][ij[2]][1] = 0
       /\ b[ij[1]][ij[2]][1] \in {1, 2}
       /\ \A kl \in Cells \ {ij} :
             /\ b[kl[1]][kl[2]][1] = nb[kl[1]][kl[2]][1]
             /\ nb[kl[1]][kl[2]][1] # 0 => b[kl[1]][kl[2]] = nb[kl[1]][kl[2]]

(***************************************************************************)
(* C1.  is_game_over(board) is true if and only if move(board, d) yields   *)
(* no new board for each of the four directions; in particular a full      *)
(* board with no mergeable neighbouring pair reports true.                 *)
(***************************************************************************)
C1_GameOverIffNoMove ==
    op = "is_game_over" => (ret = TRUE <=> NoLegalMove(pre))

(***************************************************************************)
(* C2.  On a board on which no direction is a legal move, best_move        *)
(* returns the sentinel score -123456789, for every depth and breadth.     *)
(***************************************************************************)
C2_SentinelOnDeadBoard ==
    op = "best_move" /\ NoLegalMove(pre) => ret[2] = GameOverScore

(***************************************************************************)
(* C3.  On a board with a legal direction best_move returns (d, v) with v  *)
(* the total computed for d, no direction that was not skipped having a    *)
(* greater total, and d the first direction in the order Up, Down, Left,   *)
(* Right whose total is v.                                                 *)
(***************************************************************************)
C3_BestIsFirstMaximum ==
    op = "best_move" /\ ~NoLegalMove(pre) =>
        LET d == DirectionIndex(ret[1])
            v == ret[2]
            totals == ret[3]
        IN  /\ Len(totals) = Len(Direction)
            /\ totals[d] = <<v>>
            /\ \A n \in 1..Len(totals) : totals[n] # <<>> => totals[n][1] <= v
            /\ \A n \in 1..(d - 1) : totals[n] # <<v>>

(***************************************************************************)
(* C4.  combine_values followed by pad_values is the greedy left-to-right  *)
(* merge: empty cells dropped in order, (1,1) -> rank 2 for 2 points,      *)
(* ranks one apart -> the greater rank plus one for the sum of the ranks,  *)
(* the merged tile carrying the second tile's key, any other tile emitted  *)
(* unchanged, no tile merged twice, zeros padded up to the line's length.  *)
(***************************************************************************)
C4_CombineAndPadIsGreedyMerge ==
    op = "combine_and_pad" =>
        LET parts == RefGreedy(RefDense(pre[arg]))
        IN  /\ ret[1] = [k \in 1..Len(parts) |-> parts[k].cell]
            /\ ret[2] = RefGain(parts)
            /\ Len(ret[3]) = BOARD_SIZE
            /\ \A k \in Index :
                  IF k <= Len(parts) THEN ret[3][k] = parts[k].cell
                  ELSE ret[3][k][1] = 0

\* Ranks 1, 1, 1, 0 have given 2, 1, 0, 0 for 2 points, with the second tile's key.
C4_Witness ==
    /\ op = "combine_and_pad"
    /\ RanksOf(pre[arg]) = <<1, 1, 1, 0>>
    /\ RanksOf(ret[3]) = <<2, 1, 0, 0>>
    /\ ret[2] = 2
    /\ ret[3][1][2] = pre[arg][2][2]
    /\ pre[arg][1][2] # pre[arg][2][2]

(***************************************************************************)
(* C5, as claimed.  After a move that returns a board, every occupied cell *)
(* that took part in no merge keeps its key, and every merged-into cell    *)
(* carries a key that belonged to no cell of the old board.                *)
(***************************************************************************)
C5_MergedKeysAreFresh ==
    op = "move" /\ ret[1] # None =>
        \A n \in Index :
           LET parts == RefGreedy(RefDense(TravelLine(pre, arg, n)))
               new == TravelLine(ret[1], arg, n)
           IN  \A k \in 1..Len(parts) :
                  IF parts[k].merged
                  THEN new[k][2] \notin KeysOfBoard(pre)
                  ELSE new[k][2] = parts[k].from[2]

(***************************************************************************)
(* C5, amended.  After a move that returns a board, along every line in    *)
(* the direction of travel: every occupied cell that took part in no merge *)
(* keeps its rank and key, every merged-into cell carries the key of the   *)
(* second tile of the pair it was merged from, and the cells behind them   *)
(* are empty (their keys are whatever the generator drew).                 *)
(***************************************************************************)
C5_MergedKeepsSecondKey ==
    op = "move" /\ ret[1] # None =>
        \A n \in Index :
           LET parts == RefGreedy(RefDense(TravelLine(pre, arg, n)))
               new == TravelLine(ret[1], arg, n)
           IN  \A k \in Index :
                  IF k <= Len(parts)
                  THEN /\ new[k][1] # 0
                       /\ new[k][2] = parts[k].from[2]
                       /\ ~parts[k].merged => new[k] = parts[k].from
                  ELSE new[k][1] = 0

\* A move to the right has merged two tiles with different keys and left
\* another tile of the same line unmerged.
C5_Witness ==
    /\ op = "move" /\ arg = RIGHT /\ ret[1] # None
    /\ \E n \in Index :
          LET parts == RefGreedy(RefDense(TravelLine(pre, arg, n)))
          IN  \E k, l \in 1..Len(parts) :
                 /\ parts[k].merged /\ ~parts[l].merged
                 /\ \E m \in Index : /\ pre[n][m][1] # 0
                                     /\ pre[n][m][2] # parts[k].from[2]

(***************************************************************************)
(* C6.  Direction symmetry: move Right is move Left on the board with its  *)
(* rows reversed, reversed back; move Up is move Left on the transpose,    *)
(* transposed back; move Down is move Right on the transpose, transposed   *)
(* back: same None outcome, ranks, keys of occupied cells and score.       *)
(***************************************************************************)
C6_DirectionSymmetry ==
    op = "move" =>
        /\ arg = RIGHT =>
              LET m == move(RowsReversed(pre), LEFT, rng)
              IN  SameResult(ret, IF m[1] = None THEN m ELSE <<RowsReversed(m[1]), m[2]>>)
        /\ arg = UP =>
              LET m == move(Transposed(pre), LEFT, rng)
              IN  SameResult(ret, IF m[1] = None THEN m ELSE <<Transposed(m[1]), m[2]>>)
        /\ arg = DOWN =>
              LET m == move(Transposed(pre), RIGHT, rng)
              IN  SameResult(ret, IF m[1] = None THEN m ELSE <<Transposed(m[1]), m[2]>>)

\* A move down of a board that is not its own transpose has merged tiles.
C6_Witness ==
    /\ op = "move" /\ arg = DOWN
    /\ ret[1] # None /\ ret[2] > 0
    /\ RanksOf(pre[1]) # RanksOf(TravelLine(pre, UP, 1))

(***************************************************************************)
(* C7.  On a board with an empty cell, with_random_tile returns a board    *)
(* with exactly one more occupied cell; the new tile has rank 1 or 2 and   *)
(* sits on a cell that was empty; every cell that was occupied keeps its   *)
(* rank and key at its place.                                              *)
(***************************************************************************)
C7_SpawnAddsOneTile ==
    op = "with_random_tile" /\ OccupiedCells(pre) # Cells =>
        /\ Cardinality(OccupiedCells(ret)) = Cardinality(OccupiedCells(pre)) + 1
        /\ \A ij \in OccupiedCells(pre) : ret[ij[1]][ij[2]] = pre[ij[1]][ij[2]]
        /\ \A ij \in OccupiedCells(ret) \ OccupiedCells(pre) :
              ret[ij[1]][ij[2]][1] \in {1, 2}

\* A tile of rank 2 was spawned on a board that held tiles and empty cells.
C7_Witness ==
    /\ op = "with_random_tile"
    /\ OccupiedCells(pre) # {} /\ OccupiedCells(pre) # Cells
    /\ \E ij \in Cells : pre[ij[1]][ij[2]][1] = 0 /\ ret[ij[1]][ij[2]][1] = 2

(***************************************************************************)
(* C8.  An on_key event whose direction is illegal leaves the board and    *)
(* the score as they were and spawns nothing; a legal one stores the       *)
(* spawned post-move board and adds exactly the move's delta to the score; *)
(* so no event but a reset lowers the score.                               *)
(***************************************************************************)
C8_OnKeyAllOrNothing ==
    /\ op = "on_key" =>
          LET m == move(pre, arg, rng)
          IN  IF m[1] = None
              THEN board = pre /\ score = prescore
              ELSE IsSpawnOf(board, m[1]) /\ score = prescore + m[2]
    /\ op # "on_reset" => score >= prescore

\* A legal on_key has merged tiles: the score has grown and a tile was spawned.
C8_Witness ==
    /\ op = "on_key"
    /\ score > prescore
    /\ board # pre

(***************************************************************************)
(* C9.  On a board with a legal direction, the direction best_move returns *)
(* is a legal move on that board, so a round of computer_play changes the  *)
(* board while the game is not over.                                       *)
(***************************************************************************)
C9_BestMoveIsLegal ==
    /\ op = "best_move" /\ ~NoLegalMove(pre) => Legal(pre, ret[1])
    /\ op = "computer_play" /\ ~NoLegalMove(pre) => board # pre

(***************************************************************************)
(* C10.  A legal move conserves the total displayed magnitude: the sum of  *)
(* fibonacci[rank] over the occupied cells is the same before and after.   *)
(***************************************************************************)
C10_MoveConservesDisplayedTotal ==
    op = "move" /\ ret[1] # None => DisplayedTotal(ret[1]) = DisplayedTotal(pre)

\* A move has merged tiles of ranks MaxRank - 1 and MaxRank into one tile.
C10_Witness ==
    /\ op = "move" /\ ret[1] # None
    /\ ret[2] >= 2 * MaxRank - 1
    /\ \E ij \in Cells : ret[1][ij[1]][ij[2]][1] = MaxRank + 1

====
